---- MODULE Spec2Model ----
(***************************************************************************)
(* Blood Bridge server (src/index.js): the users and donationRequests      *)
(* collections, the role middlewares and the route handlers.               *)
(*                                                                         *)
(* A handler is a chain of store round trips.  Every `await` of the source *)
(* is a point where another request may run, so a round trip together with *)
(* the synchronous code that follows it is one step of a call: a function  *)
(* from the machine (the two collections and the call) to the machine.     *)
(* Run composes the steps of one call; Serve is the whole handler, Advance *)
(* is one step of it among the steps of other calls.                       *)
(***************************************************************************)
EXTENDS Naturals, Sequences, FiniteSets, TLC

VARIABLES users, donationRequests, calls, conn

vars == <<users, donationRequests, calls, conn>>

(***************************************************************************)
(* Bounds                                                                  *)
(***************************************************************************)
\* documents ever inserted into donationRequests
MaxRequests == 1

\* documents ever inserted into users by overlapping registrations
MaxUsers == 3

\* the largest page and limit query parameters the clients send
MaxPage == 3

MaxLimit == 3

(***************************************************************************)
(* Values                                                                  *)
(***************************************************************************)
\* verified e-mail identities (decodedToken.email)
Emails == {"root@x", "a@x", "b@x"}

Roles == {"donor", "volunteer", "admin"}

UserStatuses == {"active", "blocked"}

\* the values the admin/volunteer status route accepts
StatusEnum == {"pending", "inprogress", "done", "canceled"}

OwnerStatusEnum_Any == StatusEnum

\* the values the requester's own status route accepts
OwnerStatusEnum == {"done", "canceled"}

\* a field the JSON body does not carry destructures to undefined
Undefined == "undefined"

\* a value no document field and no input ever has
Nil == "nil"

\* requests that may be in flight together
Slots == {"c1", "c2"}

\* a JSON body with none of the modelled fields
NoBody == [none |-> Undefined]

\* const { f } = req.body
Field(body, f) == IF f \in DOMAIN body THEN body[f] ELSE Undefined

\* !value
Falsy(value) == value \in {Undefined, ""}

\* { $set: updates } on the modelled fields of one document
ApplySet(doc, updates) ==
    [f \in DOMAIN doc |-> IF f \in DOMAIN updates THEN updates[f] ELSE doc[f]]

(***************************************************************************)
(* users collection: the document with _id i is at position i              *)
(***************************************************************************)
NoUser == [email |-> Nil, role |-> Nil, status |-> Nil]

RECURSIVE FirstMatch(_, _, _)
FirstMatch(us, email, i) ==
    IF i > Len(us) THEN 0
    ELSE IF us[i].email = email THEN i
    ELSE FirstMatch(us, email, i + 1)

\* usersCollection.findOne({ email }): the first match in natural order
FindUser(us, email) ==
    IF FirstMatch(us, email, 1) = 0 THEN NoUser ELSE us[FirstMatch(us, email, 1)]

\* usersCollection.updateOne({ _id }, { $set: updates })
UpdateUserOne(us, id, updates) ==
    IF id \in 1..Len(us) THEN [us EXCEPT ![id] = ApplySet(@, updates)] ELSE us

\* requireRole(role) lets the request through
requireRole(role, user) == ~(user = NoUser \/ user.role # role)

requireAnyRole_AnyUser(roles, user) == user # NoUser

\* requireAnyRole(roles) lets the request through
requireAnyRole(roles, user) == ~(user = NoUser \/ user.role \notin roles)

\* isAdmin(email, db)
isAdmin(us, email) ==
    FindUser(us, email) # NoUser /\ FindUser(us, email).role = "admin"

(***************************************************************************)
(* donationRequests collection: the document with _id i is at position i;  *)
(* a deleted document leaves a tombstone, an _id is never used again.      *)
(* The recipient, hospital, date and message fields are copied from the    *)
(* body and read by no handler; they are left out of the document.         *)
(***************************************************************************)
Deleted ==
    [requesterEmail |-> Nil, status |-> Nil, donorName |-> Nil, donorEmail |-> Nil]

\* the :id route parameters the clients send
RequestIds == 1..MaxRequests

\* findOne({ _id }) finds a document
Exists(reqs, id) == id \in 1..Len(reqs) /\ reqs[id] # Deleted

\* updateOne({ _id }, { $set: updates }); nothing changes when no document matches
UpdateOne(reqs, id, updates) ==
    IF Exists(reqs, id) THEN [reqs EXCEPT ![id] = ApplySet(@, updates)] ELSE reqs

\* deleteOne({ _id })
DeleteOne(reqs, id) ==
    IF Exists(reqs, id) THEN [reqs EXCEPT ![id] = Deleted] ELSE reqs

(***************************************************************************)
(* calls: the request a slot serves or has answered                        *)
(***************************************************************************)
NoResp == [code |-> 0, message |-> ""]

\* the total and the _ids of the documents of a list response; none yet
NoData == [total |-> 0, items |-> << >>]

Idle ==
    [op |-> "none", pc |-> "idle", caller |-> Nil, id |-> 0, body |-> NoBody,
     loc |-> Nil, resp |-> NoResp, data |-> NoData]

\* verifyFirebaseToken accepted the token: req.user.email = caller; the
\* handler is at the await named pc
Call(op, caller, id, body, pc) ==
    [op |-> op, pc |-> pc, caller |-> caller, id |-> id, body |-> body,
     loc |-> Nil, resp |-> NoResp, data |-> NoData]

\* the handler answered: what stays of the request is its route and the
\* response
Answered(op, code, message) ==
    [op |-> op, pc |-> "done", caller |-> Nil, id |-> 0, body |-> NoBody,
     loc |-> Nil, resp |-> [code |-> code, message |-> message], data |-> NoData]

\* the collections as one call finds them
Machine(call) ==
    [users |-> users, donationRequests |-> donationRequests, call |-> call]

\* res.status(code).json({ message }): the handler returns
Answer(m, code, message) ==
    [m EXCEPT !.call = Answered(m.call.op, code, message)]

\* the handler goes on to its next await
Await(m, pc) == [m EXCEPT !.call.pc = pc]

\* res.status(200).json({ total, ..., requests | users }): the handler returns
AnswerData(m, data) ==
    [m EXCEPT !.call = [Answered(m.call.op, 200, Undefined) EXCEPT !.data = data]]

(***************************************************************************)
(* conn: the module's cachedClient and cachedDb (set or null), whether     *)
(* cachedClient.connect() has resolved, whether the process runs           *)
(***************************************************************************)
\* nothing connected yet: the state after the module is loaded
Cold == [cachedClient |-> FALSE, cachedDb |-> FALSE, live |-> FALSE, running |-> TRUE]

\* connectDB has run to its end
Live == [cachedClient |-> TRUE, cachedDb |-> TRUE, live |-> TRUE, running |-> TRUE]

(***************************************************************************)
(* Request bodies the clients send                                         *)
(***************************************************************************)
\* the status field of an edit, of a status update; "reopened" is no status
StatusInputs == StatusEnum \cup {"reopened"}

EditBodies == {[status |-> s] : s \in StatusInputs}

DonateBodies ==
    {[donorName |-> "A", donorEmail |-> "a@x"],
     [donorName |-> "B", donorEmail |-> "b@x"]}

StatusBodies == {[status |-> s] : s \in StatusInputs}

MyStatusBodies == {[status |-> s] : s \in {"done", "canceled", "pending"}}

(***************************************************************************)
(* POST /dashboard/create-donation-request                                 *)
(***************************************************************************)
CreateCall(caller) == Call("create", caller, 0, NoBody, "user")

Blocked_NoStatus(currentUser) == currentUser = NoUser

Blocked_OnlyStatus(currentUser) == currentUser.status = "blocked"

\* !currentUser || currentUser.status === "blocked"
Blocked(currentUser) == currentUser = NoUser \/ currentUser.status = "blocked"

\* usersCollection.findOne({ email: req.user.email })
CreateUser(m) ==
    LET currentUser == FindUser(m.users, m.call.caller) IN
    IF Blocked(currentUser)
    THEN Answer(m, 403, "Blocked user cannot create donation request")
    ELSE [m EXCEPT !.call.pc = "insert", !.call.loc = currentUser.email]

\* donationRequestsCollection.insertOne(newRequest)
CreateInsert(m) ==
    Answer([m EXCEPT !.donationRequests = Append(@,
                [requesterEmail |-> m.call.loc, status |-> "pending",
                 donorName |-> Undefined, donorEmail |-> Undefined])],
           201, "Donation request created")

(***************************************************************************)
(* PUT and DELETE /dashboard/donation-request/:id                          *)
(***************************************************************************)
EditCall(caller, id, body) == Call("edit", caller, id, body, "find")

DeleteCall(caller, id) == Call("delete", caller, id, NoBody, "find")

\* donationRequestsCollection.findOne({ _id }), of edit and of delete
OwnedFind(m) ==
    IF ~Exists(m.donationRequests, m.call.id)
    THEN Answer(m, 404, "Donation request not found")
    ELSE [m EXCEPT !.call.pc = "admin",
                   !.call.loc = m.donationRequests[m.call.id].requesterEmail]

NotAllowed_Never(userIsAdmin, requesterEmail, caller) == FALSE

\* !userIsAdmin && request.requesterEmail !== req.user.email
NotAllowed(userIsAdmin, requesterEmail, caller) ==
    ~userIsAdmin /\ requesterEmail # caller

\* isAdmin(req.user.email, req.db), of edit and of delete
OwnedAdmin(m) ==
    IF NotAllowed(isAdmin(m.users, m.call.caller), m.call.loc, m.call.caller)
    THEN Answer(m, 403, "Not allowed")
    ELSE Await(m, "write")

\* updateOne({ _id }, { $set: updates })
EditWrite(m) ==
    Answer([m EXCEPT !.donationRequests = UpdateOne(@, m.call.id, m.call.body)],
           200, "Donation request updated")

\* deleteOne({ _id })
DeleteWrite(m) ==
    Answer([m EXCEPT !.donationRequests = DeleteOne(@, m.call.id)],
           200, "Donation request deleted")

(***************************************************************************)
(* PUT /donation-request/:id/donate                                        *)
(***************************************************************************)
DonateCall(caller, id, body) == Call("donate", caller, id, body, "find")

DonateFind_AnyStatus(m) ==
    IF ~Exists(m.donationRequests, m.call.id)
    THEN Answer(m, 404, "Request not found")
    ELSE Await(m, "write")

\* findOne({ _id })
DonateFind(m) ==
    IF ~Exists(m.donationRequests, m.call.id)
    THEN Answer(m, 404, "Request not found")
    ELSE IF m.donationRequests[m.call.id].status # "pending"
    THEN Answer(m, 400, "Request is not pending")
    ELSE Await(m, "write")

\* updateOne({ _id }, { $set: { status: "inprogress", donorName, donorEmail } })
DonateWrite(m) ==
    Answer([m EXCEPT !.donationRequests = UpdateOne(@, m.call.id,
                [status |-> "inprogress",
                 donorName |-> Field(m.call.body, "donorName"),
                 donorEmail |-> Field(m.call.body, "donorEmail")])],
           200, "Donation confirmed")

(***************************************************************************)
(* PUT /dashboard/donation-request/:id/status (admin and volunteer)        *)
(***************************************************************************)
StatusCall(caller, id, body) == Call("status", caller, id, body, "role")

StatusRole_Remembered(m) ==
    IF ~requireAnyRole({"admin", "volunteer"},
                       FindUser(<< [email |-> "root@x", role |-> "admin", status |-> "active"],
                                   [email |-> "b@x", role |-> "donor", status |-> "active"] >>,
                                m.call.caller))
    THEN Answer(m, 403, "Forbidden: Access denied")
    ELSE IF Field(m.call.body, "status") \notin StatusEnum
    THEN Answer(m, 400, "Invalid status")
    ELSE Await(m, "find")

\* requireAnyRole(["admin", "volunteer"]), then the handler up to findOne
StatusRole(m) ==
    IF ~requireAnyRole({"admin", "volunteer"}, FindUser(m.users, m.call.caller))
    THEN Answer(m, 403, "Forbidden: Access denied")
    ELSE IF Field(m.call.body, "status") \notin StatusEnum
    THEN Answer(m, 400, "Invalid status")
    ELSE Await(m, "find")

\* findOne({ _id })
StatusFind(m) ==
    IF ~Exists(m.donationRequests, m.call.id)
    THEN Answer(m, 404, "Donation request not found")
    ELSE Await(m, "write")

\* updateOne({ _id }, { $set: { status } })
StatusWrite(m) ==
    Answer([m EXCEPT !.donationRequests = UpdateOne(@, m.call.id,
                [status |-> Field(m.call.body, "status")])],
           200, "Donation status updated")

(***************************************************************************)
(* PUT /dashboard/my-donation-request/:id/status (the requester)           *)
(***************************************************************************)
MyStatusCall(caller, id, body) == Call("mystatus", caller, id, body, "body")

\* !["done", "canceled"].includes(status)
MyStatusBody(m) ==
    IF Field(m.call.body, "status") \notin OwnerStatusEnum
    THEN Answer(m, 400, "Invalid status")
    ELSE Await(m, "find")

MyStatusFind_NoStatusCheck(m) ==
    IF ~Exists(m.donationRequests, m.call.id)
    THEN Answer(m, 404, "Donation request not found")
    ELSE IF m.donationRequests[m.call.id].requesterEmail # m.call.caller
    THEN Answer(m, 403, "Not allowed")
    ELSE Await(m, "write")

MyStatusFind_AnyCaller(m) ==
    IF ~Exists(m.donationRequests, m.call.id)
    THEN Answer(m, 404, "Donation request not found")
    ELSE IF m.donationRequests[m.call.id].status # "inprogress"
    THEN Answer(m, 400, "Only inprogress requests can be updated")
    ELSE Await(m, "write")

\* findOne({ _id })
MyStatusFind(m) ==
    IF ~Exists(m.donationRequests, m.call.id)
    THEN Answer(m, 404, "Donation request not found")
    ELSE IF m.donationRequests[m.call.id].requesterEmail # m.call.caller
    THEN Answer(m, 403, "Not allowed")
    ELSE IF m.donationRequests[m.call.id].status # "inprogress"
    THEN Answer(m, 400, "Only inprogress requests can be updated")
    ELSE Await(m, "write")

\* updateOne({ _id }, { $set: { status } })
MyStatusWrite(m) ==
    Answer([m EXCEPT !.donationRequests = UpdateOne(@, m.call.id,
                [status |-> Field(m.call.body, "status")])],
           200, "Marked as " \o Field(m.call.body, "status"))

(***************************************************************************)
(* POST /register-user                                                     *)
(***************************************************************************)
RegisterBodies ==
    {[name |-> "N", email |-> e, bloodGroup |-> "O+", district |-> "D",
      upazila |-> "U"] : e \in Emails}
        \cup {[email |-> "a@x", bloodGroup |-> "O+", district |-> "D",
               upazila |-> "U"]}

RegisterCall(body) == Call("register", Nil, 0, body, "body")

\* !name || !email || !bloodGroup || !district || !upazila
RegisterBody(m) ==
    IF \/ Falsy(Field(m.call.body, "name"))
       \/ Falsy(Field(m.call.body, "email"))
       \/ Falsy(Field(m.call.body, "bloodGroup"))
       \/ Falsy(Field(m.call.body, "district"))
       \/ Falsy(Field(m.call.body, "upazila"))
    THEN Answer(m, 400, "All fields are required")
    ELSE Await(m, "find")

RegisterFind_NoLookup(m) == Await(m, "insert")

\* usersCollection.findOne({ email })
RegisterFind(m) ==
    IF FindUser(m.users, Field(m.call.body, "email")) # NoUser
    THEN Answer(m, 400, "Email already exists")
    ELSE Await(m, "insert")

\* the role, status and e-mail of newUser
NewUser(body) ==
    [name |-> Field(body, "name"), email |-> Field(body, "email"),
     bloodGroup |-> Field(body, "bloodGroup"), district |-> Field(body, "district"),
     upazila |-> Field(body, "upazila"), avatar |-> Field(body, "avatar"),
     role |-> "donor", status |-> "active"]

\* usersCollection.insertOne(newUser)
RegisterInsert(m) ==
    Answer([m EXCEPT !.users = Append(@, NewUser(m.call.body))],
           201, "User registered successfully")

(***************************************************************************)
(* GET /dashboard/all-users and PUT /dashboard/user/:id (admin)            *)
(***************************************************************************)
UserBodies ==
    {[role |-> r] : r \in Roles} \cup {[status |-> s] : s \in UserStatuses}

\* the :id route parameters: every document and an _id that matches none
UserIds == 1..(Len(users) + 1)

AllUsersCall(caller, query) == Call("users", caller, 0, query, "role")

UpdateUserCall(caller, id, body) == Call("user", caller, id, body, "role")

\* requireRole("admin") of the two routes
AdminRole(m) ==
    IF ~requireRole("admin", FindUser(m.users, m.call.caller))
    THEN Answer(m, 403, "Forbidden: Access denied")
    ELSE Await(m, IF m.call.op = "user" THEN "write" ELSE "count")

\* usersCollection.updateOne({ _id }, { $set: updates })
UpdateUserWrite(m) ==
    Answer([m EXCEPT !.users = UpdateUserOne(@, m.call.id, m.call.body)],
           200, "User updated successfully")

(***************************************************************************)
(* GET /dashboard/total-users-count and                                    *)
(* GET /dashboard/all-blood-donation-request (admin and volunteer)         *)
(***************************************************************************)
TotalUsersCountCall(caller) == Call("count", caller, 0, NoBody, "role")

AllRequestsCall(caller, query) == Call("requests", caller, 0, query, "role")

\* GET /dashboard/my-donation-requests: no role is required
MyRequestsCall(caller, query) == Call("myrequests", caller, 0, query, "count")

\* requireAnyRole(["admin", "volunteer"]) of the two routes
StaffRole(m) ==
    IF ~requireAnyRole({"admin", "volunteer"}, FindUser(m.users, m.call.caller))
    THEN Answer(m, 403, "Forbidden: Access denied")
    ELSE Await(m, "count")

\* const { status, page = 1, limit = 10 } = req.query
DefaultPage == 1

DefaultLimit == 10

Param(query, f, default) == IF f \in DOMAIN query THEN query[f] ELSE default

\* the query strings the clients send: none, page and limit, status too
Queries ==
    {NoBody}
        \cup {[page |-> p, limit |-> l] : p \in 1..MaxPage, l \in 1..MaxLimit}
        \cup {[status |-> st, page |-> p, limit |-> l] :
                  st \in {"pending", "done"}, p \in 1..MaxPage, l \in 1..MaxLimit}

\* the _ids 1..n in natural order
Ids(n) == [i \in 1..n |-> i]

Reverse(seq) == [i \in 1..Len(seq) |-> seq[Len(seq) + 1 - i]]

\* if (status) query.status = status
StatusMatches(doc, query) ==
    Falsy(Field(query, "status")) \/ doc.status = Field(query, "status")

\* find(query).sort({ createdAt: -1 }) on donationRequests: createdAt grows
\* with the _id; my-donation-requests adds requesterEmail to the query
FoundRequests(m) ==
    LET Matches(id) ==
            /\ Exists(m.donationRequests, id)
            /\ StatusMatches(m.donationRequests[id], m.call.body)
            /\ m.call.op = "myrequests" =>
                   m.donationRequests[id].requesterEmail = m.call.caller
    IN  Reverse(SelectSeq(Ids(Len(m.donationRequests)), Matches))

\* find(query) on users
FoundUsers(m) ==
    LET Matches(id) == StatusMatches(m.users[id], m.call.body)
    IN  SelectSeq(Ids(Len(m.users)), Matches)

Found(m) == IF m.call.op = "users" THEN FoundUsers(m) ELSE FoundRequests(m)

SkipCount_FromPage(page, limit) == page * limit

\* (page - 1) * limit
SkipCount(page, limit) == (page - 1) * limit

\* cursor.skip(n)
Skip(seq, n) == SubSeq(seq, n + 1, Len(seq))

\* cursor.limit(n), n positive
Limit(seq, n) == SubSeq(seq, 1, IF n < Len(seq) THEN n ELSE Len(seq))

\* countDocuments(query); the lists go on to find(query)
Count(m) ==
    IF m.call.op = "count"
    THEN AnswerData(m, [total |-> Len(m.users), items |-> << >>])
    ELSE [m EXCEPT !.call.pc = "list", !.call.data.total = Len(Found(m))]

\* find(query).skip().limit().toArray(), res.status(200).json(...)
List(m) ==
    LET page == Param(m.call.body, "page", DefaultPage)
        limit == Param(m.call.body, "limit", DefaultLimit)
    IN  AnswerData(m, [total |-> m.call.data.total,
                       items |-> Limit(Skip(Found(m), SkipCount(page, limit)), limit)])

(***************************************************************************)
(* PUT /dashboard/profile                                                  *)
(***************************************************************************)
\* the bodies the clients send: profile fields, with or without fields the
\* handler does not destructure
ProfileBodies ==
    {[name |-> "M", bloodGroup |-> "A+", district |-> "D2", upazila |-> "U2",
      role |-> "admin", status |-> "active", email |-> "root@x"],
     [role |-> "admin"]}

ProfileCall(caller, body) == Call("profile", caller, 0, body, "write")

\* usersCollection.updateOne({ email }, { $set: updates }): the first match
UpdateUserByEmail(us, email, updates) ==
    UpdateUserOne(us, FirstMatch(us, email, 1), updates)

ProfileWrite_WholeBody(m) ==
    Answer([m EXCEPT !.users = UpdateUserByEmail(@, m.call.caller, m.call.body)],
           200, "Profile updated successfully")

\* const { name, bloodGroup, district, upazila, avatar } = req.body;
\* updateOne({ email: req.user.email }, { $set: { name, ... avatar } })
ProfileWrite(m) ==
    Answer([m EXCEPT !.users = UpdateUserByEmail(@, m.call.caller,
                [name |-> Field(m.call.body, "name"),
                 bloodGroup |-> Field(m.call.body, "bloodGroup"),
                 district |-> Field(m.call.body, "district"),
                 upazila |-> Field(m.call.body, "upazila"),
                 avatar |-> Field(m.call.body, "avatar")])],
           200, "Profile updated successfully")

(***************************************************************************)
(* GET /search-donors (public)                                             *)
(***************************************************************************)
\* the query strings the clients send: any of the three filters or none
SearchQueries ==
    {NoBody}
        \cup {[bloodGroup |-> g] : g \in {"O+", "A+"}}
        \cup {[district |-> d] : d \in {"D1", "D2"}}
        \cup {[bloodGroup |-> g, district |-> d] : g \in {"O+", "A+"}, d \in {"D1", "D2"}}
        \cup {[bloodGroup |-> g, district |-> d, upazila |-> "U1"] :
                  g \in {"O+", "A+"}, d \in {"D1", "D2"}}

SearchCall(query) == Call("search", Nil, 0, query, "find")

\* if (f) query.f = f
FilterMatches(doc, query, f) ==
    Falsy(Field(query, f)) \/ Field(doc, f) = Field(query, f)

SearchMatches_AnyStatus(doc, query) ==
    /\ doc.role = "donor"
    /\ FilterMatches(doc, query, "bloodGroup")
    /\ FilterMatches(doc, query, "district")
    /\ FilterMatches(doc, query, "upazila")

\* query = { role: "donor", status: "active" } and the filters supplied
SearchMatches(doc, query) ==
    /\ doc.role = "donor"
    /\ doc.status = "active"
    /\ FilterMatches(doc, query, "bloodGroup")
    /\ FilterMatches(doc, query, "district")
    /\ FilterMatches(doc, query, "upazila")

\* usersCollection.find(query).toArray(), { total: donors.length, donors }
SearchFind(m) ==
    LET Matches(id) == SearchMatches(m.users[id], m.call.body)
        donors == SelectSeq(Ids(Len(m.users)), Matches)
    IN  AnswerData(m, [total |-> Len(donors), items |-> donors])

(***************************************************************************)
(* One step of a call, the whole call                                      *)
(***************************************************************************)
\* the continuation that runs when the await named call.pc resolves
Step(m) ==
    LET op == m.call.op
        pc == m.call.pc
    IN  CASE op = "create" /\ pc = "user" -> CreateUser(m)
          [] op = "create" /\ pc = "insert" -> CreateInsert(m)
          [] op \in {"edit", "delete"} /\ pc = "find" -> OwnedFind(m)
          [] op \in {"edit", "delete"} /\ pc = "admin" -> OwnedAdmin(m)
          [] op = "edit" /\ pc = "write" -> EditWrite(m)
          [] op = "delete" /\ pc = "write" -> DeleteWrite(m)
          [] op = "donate" /\ pc = "find" -> DonateFind(m)
          [] op = "donate" /\ pc = "write" -> DonateWrite(m)
          [] op = "status" /\ pc = "role" -> StatusRole(m)
          [] op = "status" /\ pc = "find" -> StatusFind(m)
          [] op = "status" /\ pc = "write" -> StatusWrite(m)
          [] op = "mystatus" /\ pc = "body" -> MyStatusBody(m)
          [] op = "mystatus" /\ pc = "find" -> MyStatusFind(m)
          [] op = "mystatus" /\ pc = "write" -> MyStatusWrite(m)
          [] op = "register" /\ pc = "body" -> RegisterBody(m)
          [] op = "register" /\ pc = "find" -> RegisterFind(m)
          [] op = "register" /\ pc = "insert" -> RegisterInsert(m)
          [] op \in {"users", "user"} /\ pc = "role" -> AdminRole(m)
          [] op = "user" /\ pc = "write" -> UpdateUserWrite(m)
          [] op \in {"count", "requests"} /\ pc = "role" -> StaffRole(m)
          [] op \in {"users", "count", "requests", "myrequests"} /\ pc = "count" -> Count(m)
          [] op \in {"users", "requests", "myrequests"} /\ pc = "list" -> List(m)
          [] op = "search" /\ pc = "find" -> SearchFind(m)
          [] op = "profile" /\ pc = "write" -> ProfileWrite(m)

\* the handler from the await it is at to its answer, no other request running
RECURSIVE Run(_)
Run(m) == IF m.call.pc = "done" THEN m ELSE Run(Step(m))

\* the slot has no request in flight
Free(c) == calls[c].pc \in {"idle", "done"}

\* the slots whose request in flight is of route op
InFlight(op) == {c \in Slots : ~Free(c) /\ calls[c].op = op}

\* the machine a step leaves is the next state
Becomes(c, m) ==
    /\ users' = m.users
    /\ donationRequests' = m.donationRequests
    /\ calls' = [calls EXCEPT ![c] = m.call]
    /\ UNCHANGED conn

\* the request arrives, its handler is about to run
Accept(c, call) ==
    /\ calls' = [calls EXCEPT ![c] = call]
    /\ UNCHANGED <<users, donationRequests, conn>>

\* the handler of the request in flight runs from arrival to answer
Serve(c) ==
    /\ ~Free(c)
    /\ LET m == Run(Machine(calls[c])) IN Becomes(c, m)

\* one await of the request in flight resolves
Advance(c) ==
    /\ ~Free(c)
    /\ LET m == Step(Machine(calls[c])) IN Becomes(c, m)

(***************************************************************************)
(* The routes: a verified request arrives                                  *)
(***************************************************************************)
Create(c, caller) ==
    /\ Free(c)
    /\ Len(donationRequests) + Cardinality(InFlight("create")) < MaxRequests
    /\ Accept(c, CreateCall(caller))

Edit(c, caller, id, body) ==
    /\ Free(c)
    /\ Accept(c, EditCall(caller, id, body))

Delete(c, caller, id) ==
    /\ Free(c)
    /\ Accept(c, DeleteCall(caller, id))

Donate(c, caller, id, body) ==
    /\ Free(c)
    /\ Accept(c, DonateCall(caller, id, body))

Status(c, caller, id, body) ==
    /\ Free(c)
    /\ Accept(c, StatusCall(caller, id, body))

MyStatus(c, caller, id, body) ==
    /\ Free(c)
    /\ Accept(c, MyStatusCall(caller, id, body))

Register(c, body) ==
    /\ Free(c)
    /\ Len(users) + Cardinality(InFlight("register")) < MaxUsers
    /\ Accept(c, RegisterCall(body))

AllUsers(c, caller, query) ==
    /\ Free(c)
    /\ Accept(c, AllUsersCall(caller, query))

UpdateUser(c, caller, id, body) ==
    /\ Free(c)
    /\ Accept(c, UpdateUserCall(caller, id, body))

TotalUsersCount(c, caller) ==
    /\ Free(c)
    /\ Accept(c, TotalUsersCountCall(caller))

AllRequests(c, caller, query) ==
    /\ Free(c)
    /\ Accept(c, AllRequestsCall(caller, query))

MyRequests(c, caller, query) ==
    /\ Free(c)
    /\ Accept(c, MyRequestsCall(caller, query))

Search(c, query) ==
    /\ Free(c)
    /\ Accept(c, SearchCall(query))

Profile(c, caller, body) ==
    /\ Free(c)
    /\ Accept(c, ProfileCall(caller, body))

(***************************************************************************)
(* Spec: the request ledger, one request at a time, over a directory that  *)
(* holds an admin, a donor and a volunteer                                 *)
(***************************************************************************)
SeededUsers ==
    << [email |-> "root@x", role |-> "admin", status |-> "active"],
       [email |-> "a@x", role |-> "donor", status |-> "active"],
       [email |-> "b@x", role |-> "volunteer", status |-> "active"] >>

Init ==
    /\ users = SeededUsers
    /\ donationRequests = << >>
    /\ calls = [c \in Slots |-> Idle]
    /\ conn = Live

Next ==
    \/ \E caller \in Emails : Create("c1", caller)
    \/ \E caller \in Emails, id \in RequestIds, body \in EditBodies :
           Edit("c1", caller, id, body)
    \/ \E caller \in Emails, id \in RequestIds : Delete("c1", caller, id)
    \/ \E caller \in Emails, id \in RequestIds, body \in DonateBodies :
           Donate("c1", caller, id, body)
    \/ \E caller \in Emails, id \in RequestIds, body \in StatusBodies :
           Status("c1", caller, id, body)
    \/ \E caller \in Emails, id \in RequestIds, body \in MyStatusBodies :
           MyStatus("c1", caller, id, body)
    \/ Serve("c1")

Spec == Init /\ [][Next]_vars

(***************************************************************************)
(* SpecRace: overlapping donate and requester status updates on a request  *)
(* that a@x created                                                        *)
(***************************************************************************)
SeededRequests ==
    << [requesterEmail |-> "a@x", status |-> "pending",
        donorName |-> Undefined, donorEmail |-> Undefined] >>

InitRace ==
    /\ users = SeededUsers
    /\ donationRequests = SeededRequests
    /\ calls = [c \in Slots |-> Idle]
    /\ conn = Live

NextRace ==
    \E c \in Slots :
        \/ \E caller \in Emails, id \in RequestIds, body \in DonateBodies :
               Donate(c, caller, id, body)
        \/ \E caller \in Emails, id \in RequestIds, body \in MyStatusBodies :
               MyStatus(c, caller, id, body)
        \/ Advance(c)

SpecRace == InitRace /\ [][NextRace]_vars

(***************************************************************************)
(* SpecAccess: the role-gated routes, one request at a time, while the     *)
(* admin changes roles and statuses; b@x has created a request, a@x has    *)
(* a verified identity and no user document                                *)
(***************************************************************************)
AccessUsers ==
    << [email |-> "root@x", role |-> "admin", status |-> "active"],
       [email |-> "b@x", role |-> "donor", status |-> "active"] >>

AccessRequests ==
    << [requesterEmail |-> "b@x", status |-> "pending",
        donorName |-> Undefined, donorEmail |-> Undefined] >>

InitAccess ==
    /\ users = AccessUsers
    /\ donationRequests = AccessRequests
    /\ calls = [c \in Slots |-> Idle]
    /\ conn = Live

NextAccess ==
    \/ \E caller \in Emails, id \in RequestIds, body \in EditBodies :
           Edit("c1", caller, id, body)
    \/ \E caller \in Emails, id \in RequestIds : Delete("c1", caller, id)
    \/ \E caller \in Emails, id \in RequestIds, body \in StatusBodies :
           Status("c1", caller, id, body)
    \/ \E caller \in Emails : AllRequests("c1", caller, NoBody)
    \/ \E caller \in Emails : TotalUsersCount("c1", caller)
    \/ \E caller \in Emails : AllUsers("c1", caller, NoBody)
    \/ \E caller \in Emails, id \in UserIds, body \in UserBodies :
           UpdateUser("c1", caller, id, body)
    \/ Serve("c1")

SpecAccess == InitAccess /\ [][NextAccess]_vars

(***************************************************************************)
(* SpecBlocked: request creation while the admin blocks and unblocks users *)
(***************************************************************************)
NextBlocked ==
    \/ \E caller \in Emails : Create("c1", caller)
    \/ \E caller \in Emails, id \in UserIds, body \in UserBodies :
           UpdateUser("c1", caller, id, body)
    \/ Serve("c1")

SpecBlocked == Init /\ [][NextBlocked]_vars

(***************************************************************************)
(* SpecDirectory: registration and user management, one request at a time, *)
(* from a directory that holds the admin                                   *)
(***************************************************************************)
InitDirectory ==
    /\ users = << [email |-> "root@x", role |-> "admin", status |-> "active"] >>
    /\ donationRequests = << >>
    /\ calls = [c \in Slots |-> Idle]
    /\ conn = Live

NextDirectory ==
    \/ \E body \in RegisterBodies : Register("c1", body)
    \/ \E caller \in Emails, id \in UserIds, body \in UserBodies :
           UpdateUser("c1", caller, id, body)
    \/ Serve("c1")

SpecDirectory == InitDirectory /\ [][NextDirectory]_vars

(***************************************************************************)
(* SpecRegisterRace: overlapping registrations                             *)
(***************************************************************************)
NextRegisterRace ==
    \E c \in Slots :
        \/ \E body \in RegisterBodies : Register(c, body)
        \/ Advance(c)

SpecRegisterRace == InitDirectory /\ [][NextRegisterRace]_vars

(***************************************************************************)
(* SpecUnregistered: request creation, delete and the role-gated           *)
(* routes, one request at a time; a@x has a verified identity and no user  *)
(* document                                                                *)
(***************************************************************************)
InitUnregistered ==
    /\ users = AccessUsers
    /\ donationRequests = << >>
    /\ calls = [c \in Slots |-> Idle]
    /\ conn = Live

NextUnregistered ==
    \/ \E caller \in Emails : Create("c1", caller)
    \/ \E caller \in Emails, id \in RequestIds : Delete("c1", caller, id)
    \/ \E caller \in Emails, id \in RequestIds, body \in StatusBodies :
           Status("c1", caller, id, body)
    \/ \E caller \in Emails : AllRequests("c1", caller, NoBody)
    \/ \E caller \in Emails : TotalUsersCount("c1", caller)
    \/ \E caller \in Emails : AllUsers("c1", caller, NoBody)
    \/ \E caller \in Emails, id \in UserIds, body \in UserBodies :
           UpdateUser("c1", caller, id, body)
    \/ Serve("c1")

SpecUnregistered == InitUnregistered /\ [][NextUnregistered]_vars

(***************************************************************************)
(* SpecScenario: users register, create requests, donate and close their   *)
(* own requests, one request at a time, from a directory that holds the    *)
(* admin                                                                   *)
(***************************************************************************)
NextScenario ==
    \/ \E body \in RegisterBodies : Register("c1", body)
    \/ \E caller \in Emails : Create("c1", caller)
    \/ \E caller \in Emails, id \in RequestIds, body \in DonateBodies :
           Donate("c1", caller, id, body)
    \/ \E caller \in Emails, id \in RequestIds, body \in MyStatusBodies :
           MyStatus("c1", caller, id, body)
    \/ Serve("c1")

SpecScenario == InitDirectory /\ [][NextScenario]_vars

(***************************************************************************)
(* SpecStartup: the process listens with nothing connected; donate         *)
(* requests arrive, overlap and pass dbMiddleware before their handler     *)
(***************************************************************************)
\* the request waits in dbMiddleware; loc keeps the await its handler starts at
ThroughDb(call) == [call EXCEPT !.pc = "db", !.loc = call.pc]

\* next(): the handler starts
NextHandler(call) == [call EXCEPT !.pc = call.loc, !.loc = Nil]

\* app.listen: a request arrives whatever conn is
Arrive(c, caller, id, body) ==
    /\ Free(c)
    /\ conn.running
    /\ Accept(c, ThroughDb(DonateCall(caller, id, body)))

\* dbMiddleware calls connectDB, which runs to its await or to its return
DbMiddleware(c) ==
    /\ calls[c].pc = "db"
    /\ IF conn.cachedDb
       THEN /\ calls' = [calls EXCEPT ![c] = NextHandler(@)]
            /\ UNCHANGED conn
       ELSE IF ~conn.cachedClient
       THEN /\ conn' = [conn EXCEPT !.cachedClient = TRUE]
            /\ calls' = [calls EXCEPT ![c].pc = "connect"]
       ELSE /\ conn' = [conn EXCEPT !.cachedDb = TRUE]
            /\ calls' = [calls EXCEPT ![c] = NextHandler(@)]
    /\ UNCHANGED <<users, donationRequests>>

\* cachedClient.connect() resolves: cachedDb is set, next()
Connect(c) ==
    /\ calls[c].pc = "connect"
    /\ conn' = [conn EXCEPT !.live = TRUE, !.cachedDb = TRUE]
    /\ calls' = [calls EXCEPT ![c] = NextHandler(@)]
    /\ UNCHANGED <<users, donationRequests>>

\* cachedClient.connect() rejects: dbMiddleware answers 500, the process
\* goes on, cachedClient stays set
ConnectFails(c) ==
    /\ calls[c].pc = "connect"
    /\ calls' = [calls EXCEPT ![c] =
                     Answered(@.op, 500, "Database connection failed")]
    /\ UNCHANGED <<users, donationRequests, conn>>

\* the handler is at one of its awaits
Handling(c) == calls[c].pc \notin {"idle", "done", "db", "connect"}

\* one await of the handler resolves; on a client whose connect() has not
\* resolved the driver either connects by itself or throws into the
\* handler's catch
Handle(c) ==
    /\ Handling(c)
    /\ \/ Advance(c)
       \/ /\ ~conn.live
          /\ calls' = [calls EXCEPT ![c] = Answered(@.op, 500, "Server error")]
          /\ UNCHANGED <<users, donationRequests, conn>>

InitStartup ==
    /\ users = SeededUsers
    /\ donationRequests = SeededRequests
    /\ calls = [c \in Slots |-> Idle]
    /\ conn = Cold

NextStartup ==
    \E c \in Slots :
        \/ \E caller \in Emails, id \in RequestIds, body \in DonateBodies :
               Arrive(c, caller, id, body)
        \/ DbMiddleware(c)
        \/ Connect(c)
        \/ ConnectFails(c)
        \/ Handle(c)

SpecStartup == InitStartup /\ [][NextStartup]_vars

(***************************************************************************)
(* SpecPaging: the paginated lists, one request at a time, over five users *)
(* and five donation requests, while the status of requests is overridden  *)
(***************************************************************************)
PagedUsers ==
    SeededUsers \o
        << [email |-> "c@x", role |-> "donor", status |-> "blocked"],
           [email |-> "d@x", role |-> "donor", status |-> "active"] >>

PagedRequests ==
    << [requesterEmail |-> "a@x", status |-> "pending",
        donorName |-> Undefined, donorEmail |-> Undefined],
       [requesterEmail |-> "b@x", status |-> "done",
        donorName |-> "A", donorEmail |-> "a@x"],
       [requesterEmail |-> "a@x", status |-> "pending",
        donorName |-> Undefined, donorEmail |-> Undefined],
       [requesterEmail |-> "a@x", status |-> "done",
        donorName |-> "B", donorEmail |-> "b@x"],
       [requesterEmail |-> "b@x", status |-> "pending",
        donorName |-> Undefined, donorEmail |-> Undefined] >>

InitPaging ==
    /\ users = PagedUsers
    /\ donationRequests = PagedRequests
    /\ calls = [c \in Slots |-> Idle]
    /\ conn = Live

NextPaging ==
    \/ \E caller \in Emails, query \in Queries : MyRequests("c1", caller, query)
    \/ \E caller \in Emails, query \in Queries : AllRequests("c1", caller, query)
    \/ \E caller \in Emails, query \in Queries : AllUsers("c1", caller, query)
    \/ \E caller \in Emails, id \in RequestIds, body \in StatusBodies :
           Status("c1", caller, id, body)
    \/ Serve("c1")

SpecPaging == InitPaging /\ [][NextPaging]_vars

(***************************************************************************)
(* SpecSearch: donor search, one request at a time, over four users with   *)
(* their profile fields, while the admin changes roles and statuses        *)
(***************************************************************************)
SearchUsers ==
    << [email |-> "root@x", role |-> "admin", status |-> "active",
        bloodGroup |-> "O+", district |-> "D1", upazila |-> "U1"],
       [email |-> "a@x", role |-> "donor", status |-> "active",
        bloodGroup |-> "O+", district |-> "D1", upazila |-> "U1"],
       [email |-> "b@x", role |-> "donor", status |-> "active",
        bloodGroup |-> "A+", district |-> "D1", upazila |-> "U2"],
       [email |-> "c@x", role |-> "donor", status |-> "blocked",
        bloodGroup |-> "O+", district |-> "D2", upazila |-> "U1"] >>

InitSearch ==
    /\ users = SearchUsers
    /\ donationRequests = << >>
    /\ calls = [c \in Slots |-> Idle]
    /\ conn = Live

NextSearch ==
    \/ \E query \in SearchQueries : Search("c1", query)
    \/ \E caller \in Emails, id \in UserIds, body \in UserBodies :
           UpdateUser("c1", caller, id, body)
    \/ Serve("c1")

SpecSearch == InitSearch /\ [][NextSearch]_vars

(***************************************************************************)
(* SpecProfile: registration, profile updates and the admin's user updates,*)
(* one request at a time                                                   *)
(***************************************************************************)
ProfileUsers ==
    << [name |-> "R", email |-> "root@x", bloodGroup |-> "O+", district |-> "D",
        upazila |-> "U", avatar |-> Undefined, role |-> "admin", status |-> "active"],
       [name |-> "N", email |-> "a@x", bloodGroup |-> "O+", district |-> "D",
        upazila |-> "U", avatar |-> Undefined, role |-> "donor", status |-> "active"] >>

\* registration bodies that also carry a role and a status
RoleClaimingBodies ==
    {[name |-> "N", email |-> e, bloodGroup |-> "O+", district |-> "D",
      upazila |-> "U", role |-> "admin", status |-> "blocked"] : e \in Emails}

InitProfile ==
    /\ users = ProfileUsers
    /\ donationRequests = << >>
    /\ calls = [c \in Slots |-> Idle]
    /\ conn = Live

NextProfile ==
    \/ \E body \in RegisterBodies \cup RoleClaimingBodies : Register("c1", body)
    \/ \E caller \in Emails, body \in ProfileBodies : Profile("c1", caller, body)
    \/ \E caller \in Emails, id \in UserIds, body \in UserBodies :
           UpdateUser("c1", caller, id, body)
    \/ Serve("c1")

SpecProfile == InitProfile /\ [][NextProfile]_vars

(***************************************************************************)
(* SpecDonateRace: a donate overlapping a delete, an edit or a status      *)
(* override of the request                                                 *)
(***************************************************************************)
NextDonateRace ==
    \E c \in Slots :
        \/ \E caller \in Emails, id \in RequestIds, body \in DonateBodies :
               Donate(c, caller, id, body)
        \/ \E caller \in Emails, id \in RequestIds : Delete(c, caller, id)
        \/ \E caller \in Emails, id \in RequestIds, body \in EditBodies :
               Edit(c, caller, id, body)
        \/ \E caller \in Emails, id \in RequestIds, body \in StatusBodies :
               Status(c, caller, id, body)
        \/ Advance(c)

SpecDonateRace == InitRace /\ [][NextDonateRace]_vars

(***************************************************************************)
(* SpecOwnerRace: requester status updates overlapping each other and the  *)
(* status override, on a request of a@x that b@x is donating to            *)
(***************************************************************************)
OwnerRaceRequests ==
    << [requesterEmail |-> "a@x", status |-> "inprogress",
        donorName |-> "B", donorEmail |-> "b@x"] >>

InitOwnerRace ==
    /\ users = SeededUsers
    /\ donationRequests = OwnerRaceRequests
    /\ calls = [c \in Slots |-> Idle]
    /\ conn = Live

NextOwnerRace ==
    \E c \in Slots :
        \/ \E caller \in Emails, id \in RequestIds, body \in MyStatusBodies :
               MyStatus(c, caller, id, body)
        \/ \E caller \in Emails, id \in RequestIds, body \in StatusBodies :
               Status(c, caller, id, body)
        \/ Advance(c)

SpecOwnerRace == InitOwnerRace /\ [][NextOwnerRace]_vars

(***************************************************************************)
(* Properties                                                              *)
(***************************************************************************)
\* the handler of a request of route op runs from arrival to answer
Served(op) == calls.c1.op = op /\ ~Free("c1") /\ calls'.c1.pc = "done"

\* the request served
In == calls.c1

\* the response to it
Out == calls'.c1.resp

\* the stored role of a verified identity, Nil when it has no user document
StoredRole(caller) == FindUser(users, caller).role

\* the in-flight request of slot c takes a step
Steps(c, op) == ~Free(c) /\ calls[c].op = op /\ calls'[c] # calls[c]

\* every document but id is as it was
OthersUnchanged(id) ==
    /\ Len(donationRequests') = Len(donationRequests)
    /\ \A j \in 1..Len(donationRequests) :
           j # id => donationRequests'[j] = donationRequests[j]

\* only the status of document id changed, to the value of the body
StatusSet(id, body) ==
    donationRequests' = [donationRequests EXCEPT ![id].status = body.status]

\* C1: of two donate calls on one request exactly one is answered with
\* success, in every interleaving; never do both callers observe success.
C1_ExactlyOneDonateSucceeds ==
    ~(\A c \in Slots : calls[c].op = "donate" /\ calls[c].resp.code = 200)

\* C2: no step of the requester's status update takes a request that is
\* done or canceled to pending or inprogress.
C2_OwnerUpdateNeverReopens ==
    [][\A c \in Slots : Steps(c, "mystatus") =>
          \A id \in 1..Len(donationRequests) :
              donationRequests[id].status \in {"done", "canceled"} =>
                  donationRequests'[id].status \notin {"pending", "inprogress"}]_vars

\* a requester's status update is about to write and the request is already
\* done or canceled
C2_Witness ==
    \E c \in Slots :
        /\ calls[c].op = "mystatus"
        /\ calls[c].pc = "write"
        /\ donationRequests[calls[c].id].status \in {"done", "canceled"}

\* the status of document id moved along pending -> inprogress -> done/canceled
\* by the route that owns the move, or stayed
DonorMove(id, route) ==
    LET old == donationRequests[id].status
        new == donationRequests'[id].status
    IN  \/ new = old
        \/ route = "donate" /\ old = "pending" /\ new = "inprogress"
        \/ route = "mystatus" /\ old = "inprogress" /\ new \in {"done", "canceled"}

\* the existing documents moved as a donor's route may move them
DonorMoves(route) ==
    \A id \in 1..Len(donationRequests) :
        Exists(donationRequests, id) /\ Exists(donationRequests', id)
            => DonorMove(id, route)

\* C3: whatever a caller whose stored role is donor does (create, edit,
\* delete, donate, requester status update), the status of an existing
\* request changes only pending -> inprogress by donate or
\* inprogress -> done/canceled by the requester status update.
C3_DonorOnlyFollowsLifecycle ==
    [][\A route \in {"create", "edit", "delete", "donate", "mystatus"} :
          Served(route) /\ StoredRole(In.caller) = "donor" => DonorMoves(route)]_vars

\* C4: request creation by a caller whose user document is blocked is
\* answered 403 and inserts nothing, whatever the caller's role.
C4_BlockedCannotCreate ==
    [][Served("create") /\ FindUser(users, In.caller).status = "blocked" =>
          Out.code = 403 /\ donationRequests' = donationRequests]_vars

\* the last request was a creation answered 403; every identity has a user
\* document, so its caller is blocked, and the admin is among the blocked
C4_Witness ==
    /\ calls.c1.op = "create"
    /\ calls.c1.resp.code = 403
    /\ \A e \in Emails : FindUser(users, e) # NoUser
    /\ \E i \in 1..Len(users) : users[i].status = "blocked" /\ users[i].role = "admin"

\* C5: a registration with all fields of an e-mail without user document
\* is answered 201 and appends a document with role donor and status
\* active; a registration of an e-mail that has a document is answered
\* "Email already exists" and leaves the directory as it was.
C5_RegisterOnceThenDuplicate ==
    [][Served("register") /\ ~Falsy(Field(In.body, "name")) =>
          IF FindUser(users, In.body.email) = NoUser
          THEN /\ Out.code = 201
               /\ users' = Append(users,
                      [name |-> In.body.name, email |-> In.body.email,
                       bloodGroup |-> In.body.bloodGroup,
                       district |-> In.body.district, upazila |-> In.body.upazila,
                       avatar |-> Undefined, role |-> "donor", status |-> "active"])
          ELSE /\ Out = [code |-> 400, message |-> "Email already exists"]
               /\ users' = users]_vars

\* the last request was a registration refused as duplicate, of a@x whose
\* document the admin had made a blocked volunteer
C5_Witness ==
    /\ calls.c1.op = "register"
    /\ calls.c1.resp = [code |-> 400, message |-> "Email already exists"]
    /\ FindUser(users, "a@x").role = "volunteer"
    /\ FindUser(users, "a@x").status = "blocked"
    /\ FindUser(users, "b@x") = NoUser

\* C6: no two user documents have the same e-mail, in every state that
\* overlapping registrations reach.
C6_EmailUnique ==
    \A i, j \in 1..Len(users) : i # j => users[i].email # users[j].email

\* C7: the status of every donation request is one of pending, inprogress,
\* done, canceled.
C7_StatusInEnum ==
    \A id \in 1..Len(donationRequests) :
        Exists(donationRequests, id) => donationRequests[id].status \in StatusEnum

\* caller is the requester of document id or a stored admin
MayManage(caller, id) ==
    donationRequests[id].requesterEmail = caller \/ StoredRole(caller) = "admin"

VolunteerMay ==
    /\ Served("requests") => Out.code = 200
    /\ Served("count") => Out.code = 200
    /\ Served("status")
          /\ In.body.status \in StatusEnum /\ Exists(donationRequests, In.id) =>
              Out.code = 200 /\ StatusSet(In.id, In.body)

\* a volunteer neither lists nor updates user documents
VolunteerNoUsers ==
    /\ Served("users") => Out.code = 403
    /\ Served("user") => Out.code = 403 /\ users' = users

\* C9: a caller whose stored role is volunteer may list all
\* requests, override any status and read the user count, never edits or
\* deletes a donation request and never lists or updates user documents.
C9_VolunteerNeverEdits ==
    [][~Free("c1") /\ StoredRole(In.caller) = "volunteer" =>
          /\ VolunteerMay
          /\ VolunteerNoUsers
          /\ Served("edit") \/ Served("delete") =>
                Out.code # 200 /\ donationRequests' = donationRequests]_vars

\* Apart from the requests a volunteer created: a caller whose stored role
\* is volunteer may list all requests, override any status and read the
\* user count, never edits or deletes a donation request of another
\* requester and never lists or updates user documents.
VolunteerNeverEditsOthers ==
    [][~Free("c1") /\ StoredRole(In.caller) = "volunteer" =>
          /\ VolunteerMay
          /\ VolunteerNoUsers
          /\ (Served("edit") \/ Served("delete"))
                /\ Exists(donationRequests, In.id)
                /\ donationRequests[In.id].requesterEmail # In.caller =>
                    Out.code = 403 /\ donationRequests' = donationRequests]_vars

\* C10: the status override is answered 403 for a caller whose stored role
\* is neither admin nor volunteer and 400 for a value outside the four
\* statuses, the request staying as it was; for an admin or a volunteer and
\* one of the four values it sets the status of an existing request to the
\* value, whatever the status was.
C10_OverrideByStaffOnly ==
    [][Served("status") =>
          IF StoredRole(In.caller) \notin {"admin", "volunteer"}
          THEN Out.code = 403 /\ donationRequests' = donationRequests
          ELSE IF In.body.status \notin {"pending", "inprogress", "done", "canceled"}
          THEN Out.code = 400 /\ donationRequests' = donationRequests
          ELSE IF Exists(donationRequests, In.id)
          THEN Out.code = 200 /\ StatusSet(In.id, In.body)
          ELSE Out.code = 404 /\ donationRequests' = donationRequests]_vars

\* the last request was an override that succeeded and put a request that a
\* donor had claimed back to pending
C10_Witness ==
    /\ calls.c1.op = "status"
    /\ calls.c1.resp.code = 200
    /\ \E id \in 1..Len(donationRequests) :
           /\ donationRequests[id].status = "pending"
           /\ donationRequests[id].donorEmail # Undefined
\* the routes that authorize the caller against its user document
Authorizing == {"create", "status", "requests", "count", "users", "user"}

\* the handler of a request of an authorizing route runs
ServedAuthorizing == ~Free("c1") /\ In.op \in Authorizing /\ calls'.c1.pc = "done"

\* C11: a verified caller without user document is answered 404 by an
\* operation that needs authorization; 403 is answered only to a caller
\* that has a user document.
C11_UnregisteredNotFound ==
    [][ServedAuthorizing =>
          /\ FindUser(users, In.caller) = NoUser => Out.code = 404
          /\ Out.code = 403 => FindUser(users, In.caller) # NoUser]_vars

\* C11 amended: a verified caller without user document is answered 403 by
\* every operation that needs authorization, and nothing is stored.
C11_UnregisteredForbidden ==
    [][ServedAuthorizing /\ FindUser(users, In.caller) = NoUser =>
          /\ Out.code = 403
          /\ UNCHANGED <<users, donationRequests>>]_vars

\* the last request was a creation answered 403 while no user document is
\* blocked: its caller has no user document
C11_Witness ==
    /\ calls.c1.op = "create"
    /\ calls.c1.resp.code = 403
    /\ \A i \in 1..Len(users) : users[i].status # "blocked"
\* the request served addresses a document whose requester is the caller
OwnRequest ==
    /\ Exists(donationRequests, In.id)
    /\ donationRequests[In.id].requesterEmail = In.caller

\* C12: the steps of the scenario.  A registers and creates R; a donate of
\* R, still pending, succeeds and leaves R inprogress with the donor of
\* the body; A's status update of R, inprogress, to done succeeds and
\* leaves R done; A's further status update of R, done, to canceled is
\* answered 400 and R stays done.
C12_Scenario ==
    [][/\ Served("register") /\ ~Falsy(Field(In.body, "name"))
             /\ FindUser(users, In.body.email) = NoUser =>
                 Out.code = 201 /\ FindUser(users', In.body.email).status = "active"
       /\ Served("create") /\ FindUser(users, In.caller).status = "active" =>
             /\ Out.code = 201
             /\ donationRequests' = Append(donationRequests,
                    [requesterEmail |-> In.caller, status |-> "pending",
                     donorName |-> Undefined, donorEmail |-> Undefined])
       /\ Served("donate") /\ Exists(donationRequests, In.id)
             /\ donationRequests[In.id].status = "pending" =>
                 /\ Out.code = 200
                 /\ donationRequests'[In.id].status = "inprogress"
                 /\ donationRequests'[In.id].donorEmail = In.body.donorEmail
       /\ Served("mystatus") /\ OwnRequest /\ In.body.status = "done"
             /\ donationRequests[In.id].status = "inprogress" =>
                 Out.code = 200 /\ donationRequests'[In.id].status = "done"
       /\ Served("mystatus") /\ OwnRequest /\ In.body.status = "canceled"
             /\ donationRequests[In.id].status = "done" =>
                 Out.code = 400 /\ donationRequests' = donationRequests]_vars

\* the end of the scenario: a@x registered, its request was donated to by B
\* and closed as done, and the last request, a further status update by
\* a@x, was refused
C12_Witness ==
    /\ calls.c1.op = "mystatus"
    /\ calls.c1.resp = [code |-> 400, message |-> "Only inprogress requests can be updated"]
    /\ FindUser(users, "a@x").role = "donor"
    /\ FindUser(users, "a@x").status = "active"
    /\ Len(donationRequests) = 1
    /\ donationRequests[1] = [requesterEmail |-> "a@x", status |-> "done",
                              donorName |-> "B", donorEmail |-> "b@x"]
\* C13: every protected operation is decided by the role and the status the
\* caller's user document has when the request is served: the role-gated
\* routes refuse with 403 exactly the callers whose stored role is not among
\* the roles of the route, request creation exactly the callers that have
\* no user document or a blocked one, delete exactly the callers that are
\* neither the requester nor a stored admin, whatever the documents held
\* before.
C13_DecidedByStoredRole ==
    [][/\ Served("status") \/ Served("requests") \/ Served("count") =>
             (Out.code = 403 <=> StoredRole(In.caller) \notin {"admin", "volunteer"})
       /\ Served("users") \/ Served("user") =>
             (Out.code = 403 <=> StoredRole(In.caller) # "admin")
       /\ Served("create") =>
             (Out.code = 403 <=>
                  \/ FindUser(users, In.caller) = NoUser
                  \/ FindUser(users, In.caller).status = "blocked")
       /\ Served("delete") /\ Exists(donationRequests, In.id) =>
             (Out.code = 403 <=> ~MayManage(In.caller, In.id))]_vars

\* the last request, a list of all users, succeeded while the seeded admin
\* no longer has the role admin: a promoted user made it
C13_Witness ==
    /\ calls.c1.op = "users"
    /\ calls.c1.resp.code = 200
    /\ FindUser(users, "root@x").role # "admin"
    /\ FindUser(users, "b@x").role = "admin"
\* C14: no handler runs while the store connection has not been
\* established, and a connection that failed has terminated the process.
C14_NoTrafficWithoutStore ==
    /\ \A c \in Slots : Handling(c) => conn.live
    /\ (\E c \in Slots :
            calls[c].resp = [code |-> 500, message |-> "Database connection failed"])
           => ~conn.running
\* the _ids of the documents the query of the list request served selects
Selected ==
    IF In.op = "users"
    THEN {id \in 1..Len(users) :
              "status" \in DOMAIN In.body => users[id].status = In.body.status}
    ELSE {id \in 1..Len(donationRequests) :
              /\ Exists(donationRequests, id)
              /\ "status" \in DOMAIN In.body =>
                     donationRequests[id].status = In.body.status
              /\ In.op = "myrequests" =>
                     donationRequests[id].requesterEmail = In.caller}

\* the position of a selected document in the list: newest first for
\* requests, natural order for users
Position(id) ==
    IF In.op = "users"
    THEN Cardinality({j \in Selected : j < id}) + 1
    ELSE Cardinality({j \in Selected : j > id}) + 1

\* the positions page P of limit L holds
PageOf(P, L) == ((P - 1) * L + 1)..(P * L)

\* C15: a paginated list called with page P and limit L returns at most L
\* items, exactly the documents at positions (P-1)*L+1 .. P*L of the
\* filtered sequence in its order, and total is the number of documents
\* the filter selects.
C15_Pagination ==
    [][\A P \in 1..MaxPage, L \in 1..MaxLimit :
          /\ Served("myrequests") \/ Served("requests") \/ Served("users")
          /\ "page" \in DOMAIN In.body /\ In.body.page = P /\ In.body.limit = L
          /\ Out.code # 403
          => LET data == calls'.c1.data IN
             /\ Out.code = 200
             /\ data.total = Cardinality(Selected)
             /\ Len(data.items) <= L
             /\ Len(data.items) =
                    Cardinality({id \in Selected : Position(id) \in PageOf(P, L)})
             /\ \A k \in 1..Len(data.items) :
                    /\ data.items[k] \in Selected
                    /\ Position(data.items[k]) = (P - 1) * L + k]_vars

\* the last request listed all requests and returned the second page of
\* two of the five requests, newest first
C15_Witness ==
    /\ calls.c1.op = "requests"
    /\ calls.c1.data = [total |-> 5, items |-> <<3, 2>>]
\* the users that are active donors and equal every filter of the query
ActiveDonors(query) ==
    {id \in 1..Len(users) :
        /\ users[id].role = "donor" /\ users[id].status = "active"
        /\ \A f \in DOMAIN query \cap {"bloodGroup", "district", "upazila"} :
               users[id][f] = query[f]}

\* the elements of a sequence
Range(seq) == {seq[k] : k \in 1..Len(seq)}

\* C16: donor search returns exactly the active donors that equal every
\* supplied filter, each once, and total is their number; with no filter
\* these are all active donors, and a bloodGroup filter selects among them
\* those of that blood group.
C16_DonorSearch ==
    [][Served("search") =>
          LET data == calls'.c1.data IN
          /\ Out.code = 200
          /\ Range(data.items) = ActiveDonors(In.body)
          /\ Len(data.items) = Cardinality(ActiveDonors(In.body))
          /\ data.total = Len(data.items)
          /\ "bloodGroup" \in DOMAIN In.body /\ Cardinality(DOMAIN In.body) = 1 =>
                 Range(data.items) =
                     {id \in ActiveDonors(NoBody) :
                          users[id].bloodGroup = In.body.bloodGroup}]_vars

\* the last request was a search that returned a@x alone while b@x is an
\* active donor of another blood group and c@x a blocked donor of the same
C16_Witness ==
    /\ calls.c1.op = "search"
    /\ calls.c1.data = [total |-> 1, items |-> <<2>>]
    /\ users[3].role = "donor" /\ users[3].status = "active"
    /\ users[4].role = "donor" /\ users[4].status = "blocked"
    /\ users[4].bloodGroup = users[2].bloodGroup

\* document id with the donor of the body bound to it
DonorBound(id, body) ==
    [donationRequests EXCEPT ![id] =
        [@ EXCEPT !.status = "inprogress",
                  !.donorName = body.donorName,
                  !.donorEmail = body.donorEmail]]

\* C17: donate, by whoever calls it, on a pending request sets the status to
\* inprogress and records the donor name and email of the body and nothing
\* else; on a request that is not pending it answers 400 and on a missing one
\* 404, and then no document changes.
C17_Donate ==
    [][Served("donate") =>
          IF ~Exists(donationRequests, In.id)
          THEN Out.code = 404 /\ donationRequests' = donationRequests
          ELSE IF donationRequests[In.id].status # "pending"
          THEN Out.code = 400 /\ donationRequests' = donationRequests
          ELSE Out.code = 200 /\ donationRequests' = DonorBound(In.id, In.body)]_vars

\* the last request was a donate refused with 400 on a request that an
\* earlier donate had bound to donor a@x
C17_Witness ==
    /\ calls.c1.op = "donate"
    /\ calls.c1.resp = [code |-> 400, message |-> "Request is not pending"]
    /\ Exists(donationRequests, 1)
    /\ donationRequests[1].status = "inprogress"
    /\ donationRequests[1].donorName = "A"
    /\ donationRequests[1].donorEmail = "a@x"

\* C18: the requester's status update changes a request only when the value
\* is done or canceled, the request exists, the caller is its requester and
\* its status is inprogress, and then sets the status to the value; otherwise
\* it answers 400 for another value, else 404 for a missing request, else 403
\* for a caller that is not the requester (an admin or the recorded donor
\* included), else 400 for another status, and no document changes.
C18_OwnerUpdate ==
    [][Served("mystatus") =>
          LET id == In.id
              goodValue == In.body.status \in {"done", "canceled"}
              exists == Exists(donationRequests, id)
              requester == donationRequests[id].requesterEmail = In.caller
              inprogress == donationRequests[id].status = "inprogress"
          IN  IF goodValue /\ exists /\ requester /\ inprogress
              THEN Out.code = 200 /\ StatusSet(id, In.body)
              ELSE /\ donationRequests' = donationRequests
                   /\ Out.code =
                         IF ~goodValue THEN 400
                         ELSE IF ~exists THEN 404
                         ELSE IF ~requester THEN 403
                         ELSE 400]_vars

\* the last request was a status update refused with 403 on an inprogress
\* request of a@x whose recorded donor is b@x
C18_Witness ==
    /\ calls.c1.op = "mystatus"
    /\ calls.c1.resp = [code |-> 403, message |-> "Not allowed"]
    /\ Exists(donationRequests, 1)
    /\ donationRequests[1].requesterEmail = "a@x"
    /\ donationRequests[1].status = "inprogress"
    /\ donationRequests[1].donorEmail = "b@x"

\* the fields a profile update may write
ProfileFields == {"name", "bloodGroup", "district", "upazila", "avatar"}

\* the role or the status of some user document changes in this step
RoleOrStatusChanges ==
    \E i \in 1..Len(users) :
        \/ i > Len(users')
        \/ users'[i].role # users[i].role
        \/ users'[i].status # users[i].status

\* C19: the role and the status of a user document change only when a user
\* update by a stored admin is served; a registration leaves every document
\* as it is and adds at most one, with role donor and status active; a
\* profile update changes at most the name, bloodGroup, district, upazila
\* and avatar of the documents with the caller's e-mail, whatever the body
\* contains.
C19_RoleAndStatusByAdminOnly ==
    [][/\ RoleOrStatusChanges =>
             Served("user") /\ StoredRole(In.caller) = "admin"
       /\ Served("register") =>
             /\ SubSeq(users', 1, Len(users)) = users
             /\ Len(users') \in {Len(users), Len(users) + 1}
             /\ Len(users') > Len(users) =>
                    /\ users'[Len(users')].role = "donor"
                    /\ users'[Len(users')].status = "active"
       /\ Served("profile") =>
             /\ Len(users') = Len(users)
             /\ \A i \in 1..Len(users) :
                    /\ users[i].email # In.caller => users'[i] = users[i]
                    /\ DOMAIN users'[i] = DOMAIN users[i]
                    /\ \A f \in DOMAIN users[i] \ ProfileFields :
                           users'[i][f] = users[i][f]]_vars

\* the last request was a profile update; a@x carries the profile of the
\* body and is still an active donor, root@x is still the admin, and b@x,
\* registered meanwhile, is an active donor
C19_Witness ==
    /\ calls.c1.op = "profile"
    /\ calls.c1.resp.code = 200
    /\ Len(users) = 3
    /\ users[1].email = "root@x" /\ users[1].role = "admin"
    /\ users[2].email = "a@x" /\ users[2].name = "M" /\ users[2].bloodGroup = "A+"
    /\ users[2].role = "donor" /\ users[2].status = "active"
    /\ users[3].email = "b@x" /\ users[3].role = "donor" /\ users[3].status = "active"

\* C20: when a donate answers success, the request exists after its write
\* with status inprogress and the donor name and email of its body, in
\* every interleaving with a delete, an edit or a status override.
C20_DonateSuccessBinds ==
    [][\A c \in Slots :
          Steps(c, "donate") /\ calls'[c].resp.code = 200 =>
              /\ Exists(donationRequests', calls[c].id)
              /\ donationRequests'[calls[c].id].status = "inprogress"
              /\ donationRequests'[calls[c].id].donorName = calls[c].body.donorName
              /\ donationRequests'[calls[c].id].donorEmail = calls[c].body.donorEmail]_vars

\* C21: no step of the requester's status update changes the status of a
\* request that is not inprogress when the step is taken, in every
\* interleaving with a status override or another requester's status
\* update; a request that is done is never made canceled by it, nor a
\* canceled one done.
C21_OwnerWriteOnlyInprogress ==
    [][\A c \in Slots : Steps(c, "mystatus") =>
          \A id \in 1..Len(donationRequests) :
              donationRequests[id].status # "inprogress" =>
                  donationRequests'[id].status = donationRequests[id].status]_vars
====
